---- MODULE Spec2Model ----
\* Crate-wide name resolution of ra_hir (crates/ra_hir/src/nameres.rs):
\* PerNs, ItemMap, the path resolver resolve_path_fp and the fixed-point
\* Resolver (populate, sweep loop, resolve_import, update_recursive).
EXTENDS Integers, Sequences, FiniteSets, TLC

VARIABLES
    input,                    \* Resolver.input: module id -> LoweredModule
    order,                    \* iteration order of the input hash map
    sweep_cap,                \* the cap on `iter` of Resolver::resolve
    depth_cap,                \* the cap on `depth` of update_recursive
    canceled,                 \* the database's cancellation flag
    pc,                       \* position of Resolver::resolve
    mod_idx,                  \* position in `order` of the running for loop
    imp_idx,                  \* the import resolve_imports attempts next
    iter,                     \* `iter` of Resolver::resolve
    processed_imports_count,  \* `processed_imports_count` of Resolver::resolve
    processed_imports,        \* Resolver.processed_imports
    glob_imports,             \* Resolver.glob_imports
    result,                   \* Resolver.result: the ItemMap under construction
    module_items,             \* `module_items` of the running populate_module
    last_step,                \* history: the last resolve_import call
    fixed,                    \* history: the definition each processed import resolved to
    late,                     \* history: the (module, name) entries filled by propagation
    first_run,                \* history: the ItemMap an earlier run on this input returned
    returned,                 \* what item_map_query has given its caller
    cancel_log,               \* history: where cancellation was requested, the imports attempted since
    wrote,                    \* history: the slots each processed non-glob import filled
    sweep_start               \* history: self.result at the head of the running sweep

env == <<input, sweep_cap, depth_cap>>
vars == <<input, order, sweep_cap, depth_cap, canceled, pc, mod_idx, imp_idx, iter,
          processed_imports_count, processed_imports, glob_imports, result,
          module_items, last_step, fixed, late, first_run, returned, cancel_log,
          wrote, sweep_start>>

\* ---------------------------------------------------------------- bounds

\* Largest number of imports of the whole crate in an input.
MaxImports == 3

\* The two caps scaled to the size of the inputs: a sweep cap of 2 against
\* import chains of 2 stands for 1000 against chains of 1000, a depth cap of 1
\* against glob rings of 2 modules for 100 against rings of 101.
ScaledSweepCap == 2
ScaledDepthCap == 1

\* ------------------------------------------------------ program constants

SweepCap == 1000
DepthCap == 100

\* ------------------------------------------------------------- universe

ThisCrate == "this"
DepCrate == "dep"

\* Module ids of the crate being resolved; 1 is the crate root.
ModuleIds == {1, 2, 3}

\* ModuleTree: parent link of every module (0: the root has none).
TreeParent(krate, id) == IF id = 1 THEN 0 ELSE 1

\* ModuleTree: the (name, child) links of a module, in declaration order.
TreeChildren(krate, id) ==
    IF id # 1 THEN <<>>
    ELSE IF krate = ThisCrate THEN << <<"a", 2>>, <<"b", 3>> >>
    ELSE << <<"m", 2>> >>

NoName == ""

\* ModuleDef. None stands for Option::None.
None == [k |-> "None", krate |-> "", id |-> 0]
Def(k, krate, id) == [k |-> k, krate |-> krate, id |-> id]
ModuleDefOf(krate, id) == Def("Module", krate, id)

\* Module handle {krate, module_id}.
Module(krate, id) == [krate |-> krate, module_id |-> id]

TheEnum == Def("Enum", ThisCrate, 1)

\* Enum::variants: the variants of an enum, each with its Option<Name>.
EnumVariants(e) ==
    IF e = TheEnum
    THEN << [def |-> Def("EnumVariant", ThisCrate, 1), name |-> "X"],
            [def |-> Def("EnumVariant", ThisCrate, 2), name |-> NoName] >>
    ELSE <<>>

\* ---------------------------------------------------------------- PerNs

PerNs(t, v) == [types |-> t, values |-> v]
PerNsNone == PerNs(None, None)
PerNsTypes(t) == PerNs(t, None)
PerNsValues(v) == PerNs(None, v)
PerNsBoth(t, v) == PerNs(t, v)
IsNone(p) == p.types = None /\ p.values = None
IsBoth(p) == p.types # None /\ p.values # None
TakeTypes(p) == p.types

\* Option::or
OptOr(a, b) == IF a # None THEN a ELSE b

\* A fallback of the whole PerNs: `other` only when `self` has no slot at all.
PerNsOrWhole(self, other) == IF IsNone(self) THEN other ELSE self

\* PerNs::or
PerNsOr(self, other) ==
    PerNs(OptOr(self.types, other.types), OptOr(self.values, other.values))

\* ----------------------------------------------------- Resolution, ItemMap

NoImport == 0
Resolution(def, import) == [def |-> def, import |-> import]
DefaultResolution == Resolution(PerNsNone, NoImport)

\* Option::or on Option<ImportId>
ImportOr(a, b) == IF a # NoImport THEN a ELSE b

EmptyScope == [n \in {} |-> DefaultResolution]

\* The completed ItemMap of the dependency crate (db.item_map(dep)).
DepItemMap ==
    [extern_prelude |-> [n \in {} |-> None],
     per_module |->
        (1 :> ("m" :> Resolution(PerNsTypes(ModuleDefOf(DepCrate, 2)), NoImport)
               @@ "S" :> Resolution(PerNsBoth(Def("Struct", DepCrate, 1),
                                              Def("Struct", DepCrate, 1)), NoImport))
         @@ 2 :> ("T" :> Resolution(PerNsTypes(Def("Struct", DepCrate, 2)), NoImport)))]

\* Crate::dependencies: (name, crate) of every dependency.
Dependencies == << [name |-> "d", krate |-> DepCrate] >>

Yes == "Yes"
No == "No"
FpResult(def, fp) == [def |-> def, fp |-> fp]

Path(kind, segments) == [kind |-> kind, segments |-> segments]

\* from_extern_prelude.or(from_scope): the extern prelude consulted first
ResolveNameInModulePreludeFirst(im, module, name) ==
    LET items == im.per_module[module.module_id]
        from_scope == IF name \in DOMAIN items THEN items[name].def ELSE PerNsNone
        from_extern_prelude ==
            IF name \in DOMAIN im.extern_prelude
            THEN PerNsTypes(im.extern_prelude[name]) ELSE PerNsNone
    IN PerNsOr(from_extern_prelude, from_scope)

\* from_scope.or(from_extern_prelude)
ResolveNameInModule(im, module, name) ==
    LET items == im.per_module[module.module_id]
        from_scope == IF name \in DOMAIN items THEN items[name].def ELSE PerNsNone
        from_extern_prelude ==
            IF name \in DOMAIN im.extern_prelude
            THEN PerNsTypes(im.extern_prelude[name]) ELSE PerNsNone
    IN PerNsOr(from_scope, from_extern_prelude)

\* Enum::variant: the variant of that name, if any.
EnumVariant(e, name) ==
    LET vs == EnumVariants(e)
        hit == {i \in 1..Len(vs) : vs[i].name = name /\ name # NoName}
    IN IF hit = {} THEN None ELSE vs[CHOOSE i \in hit : \A j \in hit : i <= j].def

RECURSIVE ResolvePathFp(_, _, _)
RECURSIVE ResolveSegments(_, _, _, _, _)

\* An end of the segment loop that reports an empty result as not final.
AllSegmentsConsumedPendingIfEmpty(curr) == FpResult(curr, IF IsNone(curr) THEN No ELSE Yes)

\* `(curr_per_ns, ReachedFixedPoint::Yes)` after the loop over the segments
AllSegmentsConsumed(curr) == FpResult(curr, Yes)

\* A delegation that hands the fixed point of the other crate's lookup on.
InOtherCrateKeepingFp(c, segments) ==
    ResolvePathFp(DepItemMap, Module(c.krate, c.id), Path("Self", segments))

\* resolve_path_fp, container a module of another crate: the rest of the path
\* is resolved by item_map.resolve_path in that crate's ItemMap, from that
\* module, and the result is final.
InOtherCrate(c, segments) ==
    FpResult(ResolvePathFp(DepItemMap, Module(c.krate, c.id), Path("Self", segments)).def,
             Yes)

\* A first segment of an Abs path looked up like that of a Plain path.
AbsFirstSegmentScopeFirst(im, original_module, name) ==
    LET items == im.per_module[original_module.module_id]
    IN IF name \in DOMAIN items /\ items[name].def.types # None
       THEN items[name].def.types
       ELSE IF name \in DOMAIN im.extern_prelude THEN im.extern_prelude[name] ELSE None

\* resolve_path_fp, PathKind::Abs: self.extern_prelude.get(&segment.name)
AbsFirstSegment(im, original_module, name) ==
    IF name \in DOMAIN im.extern_prelude THEN im.extern_prelude[name] ELSE None

\* A container that is not a module or an enum taken for a pending lookup.
NotAContainerPending == FpResult(PerNsNone, No)

\* resolve_path_fp, container neither module nor enum with segments left
NotAContainer == FpResult(PerNsNone, Yes)

\* A segment missing from a module of this crate taken for a final miss.
SegmentNotFoundFinal == FpResult(PerNsNone, Yes)

\* resolve_path_fp: no Types slot to go on from, or the segment is not (yet)
\* defined in the module of this crate
SegmentNotFound == FpResult(PerNsNone, No)

\* The `for (i, segment) in segments` loop of resolve_path_fp, from segment i
\* with curr_per_ns = curr.
ResolveSegments(im, original_module, path, i, curr) ==
    IF i > Len(path.segments) THEN AllSegmentsConsumed(curr)
    ELSE IF curr.types = None THEN SegmentNotFound
    ELSE LET c == curr.types
             name == path.segments[i]
         IN IF c.k = "Module" THEN
                IF c.krate # original_module.krate
                THEN InOtherCrate(c, SubSeq(path.segments, i, Len(path.segments)))
                ELSE LET items == im.per_module[c.id]
                     IN IF name \in DOMAIN items /\ ~IsNone(items[name].def)
                        THEN ResolveSegments(im, original_module, path, i + 1, items[name].def)
                        ELSE SegmentNotFound
            ELSE IF c.k = "Enum" THEN
                LET variant == EnumVariant(c, name)
                IN ResolveSegments(im, original_module, path, i + 1,
                       IF variant # None THEN PerNsBoth(variant, c) ELSE PerNsNone)
            ELSE NotAContainer

ResolvePathFp(im, original_module, path) ==
    LET segs == path.segments
        parent == TreeParent(original_module.krate, original_module.module_id)
    IN CASE path.kind = "Crate" ->
              ResolveSegments(im, original_module, path, 1,
                  PerNsTypes(ModuleDefOf(original_module.krate, 1)))
         [] path.kind = "Self" ->
              ResolveSegments(im, original_module, path, 1,
                  PerNsTypes(ModuleDefOf(original_module.krate, original_module.module_id)))
         [] path.kind = "Plain" ->
              IF Len(segs) = 0 THEN FpResult(PerNsNone, Yes)
              ELSE ResolveSegments(im, original_module, path, 2,
                       ResolveNameInModule(im, original_module, segs[1]))
         [] path.kind = "Super" ->
              IF parent # 0
              THEN ResolveSegments(im, original_module, path, 1,
                       PerNsTypes(ModuleDefOf(original_module.krate, parent)))
              ELSE FpResult(PerNsNone, Yes)
         [] path.kind = "Abs" ->
              IF Len(segs) = 0 THEN FpResult(PerNsNone, Yes)
              ELSE IF AbsFirstSegment(im, original_module, segs[1]) # None
              THEN ResolveSegments(im, original_module, path, 2,
                       PerNsTypes(AbsFirstSegment(im, original_module, segs[1])))
              ELSE FpResult(PerNsNone, No)

\* ItemMap::resolve_path
ResolvePath(im, original_module, path) == ResolvePathFp(im, original_module, path).def

\* ------------------------------------------------------------ the input

\* ImportData of nameres::lower.
ImportData(path, alias, is_glob, is_extern_crate) ==
    [path |-> path, alias |-> alias, is_glob |-> is_glob,
     is_extern_crate |-> is_extern_crate]

Use(kind, segments) == ImportData(Path(kind, segments), NoName, FALSE, FALSE)
UseAs(kind, segments, alias) == ImportData(Path(kind, segments), alias, FALSE, FALSE)
UseGlob(kind, segments) == ImportData(Path(kind, segments), NoName, TRUE, FALSE)
ExternCrate(name, alias) == ImportData(Path("Plain", <<name>>), alias, FALSE, TRUE)

\* LoweredModule.declarations of every module: the root declares a function
\* named like its child module a; a declares a struct S (types only) and a
\* function named like the dependency d; b declares a unit struct S (both
\* namespaces), the enum E and a struct named like the dependency d.
Declarations(m) ==
    CASE m = 1 -> ("a" :> PerNsValues(Def("Function", ThisCrate, 1)))
      [] m = 2 -> ("S" :> PerNsTypes(Def("Struct", ThisCrate, 2))
                   @@ "d" :> PerNsValues(Def("Function", ThisCrate, 2)))
      [] OTHER -> ("S" :> PerNsBoth(Def("Struct", ThisCrate, 3), Def("Struct", ThisCrate, 3))
                   @@ "E" :> PerNsTypes(TheEnum)
                   @@ "d" :> PerNsTypes(Def("Struct", ThisCrate, 4)))

\* `use crate::a::*;  use crate::b::*;  use crate::a::S as T;  use crate::a::T;`
GlobMenu ==
    { UseGlob("Crate", <<"a">>), UseGlob("Crate", <<"b">>),
      UseAs("Crate", <<"a", "S">>, "T"), Use("Crate", <<"a", "T">>) }

\* `use d::S;  use d as e;  use crate::b::*;  use d::*;`
PlainMenu ==
    { Use("Plain", <<"d", "S">>), UseAs("Plain", <<"d">>, "e"),
      UseGlob("Crate", <<"b">>), UseGlob("Plain", <<"d">>) }

\* `use bad::Thing;  use bad;  use crate::a::S as Thing;  use crate::b::*;`
ErrMenu ==
    { Use("Plain", <<"bad", "Thing">>), Use("Plain", <<"bad">>),
      UseAs("Crate", <<"a", "S">>, "Thing"), UseGlob("Crate", <<"b">>) }

\* `use crate::b::E::*;  use crate::b::S as X;  use crate::a::S as X;  use crate::a::*;`
EnumMenu ==
    { UseGlob("Crate", <<"b", "E">>), UseAs("Crate", <<"b", "S">>, "X"),
      UseAs("Crate", <<"a", "S">>, "X"), UseGlob("Crate", <<"a">>) }

\* `use crate::b::E::Y;  use crate::b::E::Y::Z;  use crate::a::S::f;  use crate::a::Y;`
PathMenu ==
    { Use("Crate", <<"b", "E", "Y">>), Use("Crate", <<"b", "E", "Y", "Z">>),
      Use("Crate", <<"a", "S", "f">>), Use("Crate", <<"a", "Y">>) }

\* `extern crate d as x;  use ::x::S;  use ::d::m::T;  use x::nothing;`
ForeignMenu ==
    { ExternCrate("d", "x"), Use("Abs", <<"x", "S">>),
      Use("Abs", <<"d", "m", "T">>), Use("Plain", <<"x", "nothing">>) }

\* `use crate::a::d;  use crate::a::*;  use bad;  extern crate a as d;`
ShadowMenu ==
    { Use("Crate", <<"a", "d">>), UseGlob("Crate", <<"a">>),
      Use("Plain", <<"bad">>), ExternCrate("a", "d") }

\* `use crate as k;  use self;  use self::*;  use crate::a::S;`
NoSegmentMenu ==
    { UseAs("Crate", <<>>, "k"), Use("Self", <<>>),
      UseGlob("Self", <<>>), Use("Crate", <<"a", "S">>) }

SeqsUpTo(S, n) == UNION {[1..k -> S] : k \in 0..n}

\* The imports of the crate, as (module, import) pairs grouped by module.
ImportLayouts(menu) ==
    {f \in SeqsUpTo(ModuleIds \X menu, MaxImports) :
        \A i \in 1..(Len(f) - 1) : f[i][1] <= f[i + 1][1]}

RECURSIVE ImportsOf(_, _)
ImportsOf(f, m) ==
    IF f = <<>> THEN <<>>
    ELSE IF f[1][1] = m THEN <<f[1][2]>> \o ImportsOf(Tail(f), m)
    ELSE ImportsOf(Tail(f), m)

LoweredModule(declarations, imports) ==
    [declarations |-> declarations, imports |-> imports]

Inputs(menu) ==
    {[m \in ModuleIds |-> LoweredModule(Declarations(m), ImportsOf(f, m))] :
        f \in ImportLayouts(menu)}

\* The orders in which a hash map may iterate over the modules.
Orders == {o \in [1..Cardinality(ModuleIds) -> ModuleIds] :
              \A i, j \in DOMAIN o : i # j => o[i] # o[j]}

\* ------------------------------------------------------------- Resolver

ImportIds(m) == 1..Len(input[m].imports)

\* alias.unwrap_or_else(|| last_segment.name)
VisibleName(import) ==
    IF import.alias # NoName THEN import.alias
    ELSE import.path.segments[Len(import.path.segments)]

EmptyItemMap ==
    [extern_prelude |-> [n \in {} |-> None], per_module |-> [m \in {} |-> EmptyScope]]

\* populate_extern_prelude
ExternPreludeOfDependencies ==
    [n \in {Dependencies[i].name : i \in DOMAIN Dependencies} |->
        LET i == CHOOSE i \in DOMAIN Dependencies :
                    /\ Dependencies[i].name = n
                    /\ \A j \in DOMAIN Dependencies : Dependencies[j].name = n => j <= i
        IN ModuleDefOf(Dependencies[i].krate, 1)]

\* A first loop of populate_module that seeds nothing for the imports.
SeedImportsWithoutPlaceholders(imports) == EmptyScope

\* populate_module, first loop: a placeholder for every non-glob import with
\* a last segment, a later import replacing the entry of the same name.
SeedImports(imports) ==
    LET named == {i \in DOMAIN imports :
                     Len(imports[i].path.segments) > 0 /\ ~imports[i].is_glob}
        last_import(n) == CHOOSE i \in named :
                             /\ VisibleName(imports[i]) = n
                             /\ \A j \in named : VisibleName(imports[j]) = n => j <= i
    IN [n \in {VisibleName(imports[i]) : i \in named} |->
           Resolution(PerNsNone, last_import(n))]

\* populate_module, second loop: module_items.items.insert(name, resolution)
\* for every declaration, replacing the entry of the same name.
SeedDeclarations(items, declarations) ==
    [n \in DOMAIN items \cup DOMAIN declarations |->
        IF n \in DOMAIN declarations
        THEN Resolution(declarations[n], NoImport) ELSE items[n]]

\* populate_module, third loop: add_module_item for every child module,
\* replacing the entry of the same name.
SeedChildren(items, module_id) ==
    LET children == TreeChildren(ThisCrate, module_id)
        last_child(n) == CHOOSE i \in DOMAIN children :
                             /\ children[i][1] = n
                             /\ \A j \in DOMAIN children : children[j][1] = n => j <= i
    IN [n \in DOMAIN items \cup {children[i][1] : i \in DOMAIN children} |->
           IF \E i \in DOMAIN children : children[i][1] = n
           THEN Resolution(PerNsTypes(ModuleDefOf(ThisCrate, children[last_child(n)][2])),
                           NoImport)
           ELSE items[n]]

\* One iteration of the `for (name, res) in resolutions` loop of update_recursive.
MergeEntry(existing, import, res) ==
    LET t == existing.def.types = None /\ res.def.types # None
        e1 == IF t THEN Resolution([existing.def EXCEPT !.types = res.def.types],
                                   ImportOr(import, res.import))
              ELSE existing
        v == e1.def.values = None /\ res.def.values # None
        e2 == IF v THEN Resolution([e1.def EXCEPT !.values = res.def.values],
                                   ImportOr(import, res.import))
              ELSE e1
    IN [entry |-> e2, changed |-> t \/ v]

\* items.entry(name).or_default()
EntryOrDefault(items, name) ==
    IF name \in DOMAIN items THEN items[name] ELSE DefaultResolution

\* The whole loop over a batch: the scope after it.
MergeBatch(items, import, resolutions) ==
    [n \in DOMAIN items \cup DOMAIN resolutions |->
        IF n \in DOMAIN resolutions
        THEN MergeEntry(EntryOrDefault(items, n), import, resolutions[n]).entry
        ELSE items[n]]

\* A `changed` flag that is set whatever the batch filled.
BatchChangedAlways(items, import, resolutions) == TRUE

\* The whole loop over a batch: its `changed` flag.
BatchChanged(items, import, resolutions) ==
    \E n \in DOMAIN resolutions :
        MergeEntry(EntryOrDefault(items, n), import, resolutions[n]).changed

\* One call of update_recursive: its arguments, its `changed` flag and the
\* number of glob imports registered on the module at that moment.
Visit(module_id, import, changed, depth) ==
    [module |-> module_id, import |-> import, changed |-> changed, depth |-> depth,
     importers |-> Len(glob_imports[module_id])]

RECURSIVE UpdateRecursive(_, _, _, _, _)
RECURSIVE UpdateImporters(_, _, _, _, _)

\* The `for (glob_importing_module, glob_import) in glob_imports` loop from
\* position i of the cloned list, handing on the import of the batch's entries
\* instead of the glob import.
UpdateImportersUntagged(st, importers, i, resolutions, depth) ==
    IF i > Len(importers) THEN st
    ELSE UpdateImporters(
            UpdateRecursive(st, importers[i][1], NoImport, resolutions, depth),
            importers, i + 1, resolutions, depth)

\* The batch written into every module of the crate instead.
UpdateEveryModule(st, importers, i, resolutions, depth) ==
    [st EXCEPT !.per_module =
        [m \in DOMAIN st.per_module |-> MergeBatch(st.per_module[m], NoImport, resolutions)]]

\* The same loop, never entered.
UpdateImportersSkipped(st, importers, i, resolutions, depth) == st

\* The `for (glob_importing_module, glob_import) in glob_imports` loop, from
\* position i of the cloned list.
UpdateImporters(st, importers, i, resolutions, depth) ==
    IF i > Len(importers) THEN st
    ELSE UpdateImporters(
            UpdateRecursive(st, importers[i][1], importers[i][2], resolutions, depth),
            importers, i + 1, resolutions, depth)

\* update_recursive on the state st = [per_module, trace, panic]; trace records
\* the calls made, panic the depth-cap abort.
UpdateRecursive(st, module_id, import, resolutions, depth) ==
    IF st.panic THEN st
    ELSE IF depth > depth_cap THEN [st EXCEPT !.panic = TRUE]
    ELSE LET items == st.per_module[module_id]
             changed == BatchChanged(items, import, resolutions)
             st1 == [per_module |-> [st.per_module EXCEPT ![module_id] =
                                        MergeBatch(items, import, resolutions)],
                     trace |-> Append(st.trace, Visit(module_id, import, changed, depth)),
                     panic |-> FALSE]
         IN IF ~changed THEN st1
            ELSE UpdateImporters(st1, glob_imports[module_id], 1, resolutions, depth + 1)

Update(per_module, module_id, import, resolutions) ==
    UpdateRecursive([per_module |-> per_module, trace |-> <<>>, panic |-> FALSE],
                    module_id, import, resolutions, 0)

\* The resolutions a glob import of an enum makes of its named variants.
\* The variants of an enum imported into the Types namespace only.
EnumResolutionsTypesOnly(e, import_id) ==
    LET vs == EnumVariants(e)
        named == {i \in DOMAIN vs : vs[i].name # NoName}
    IN [n \in {vs[i].name : i \in named} |->
           LET i == CHOOSE i \in named : vs[i].name = n
           IN Resolution(PerNsTypes(vs[i].def), import_id)]

\* resolve_import, glob of an enum: a resolution for every named variant
EnumResolutions(e, import_id) ==
    LET vs == EnumVariants(e)
        named == {i \in DOMAIN vs : vs[i].name # NoName}
    IN [n \in {vs[i].name : i \in named} |->
           LET i == CHOOSE i \in named : vs[i].name = n
           IN Resolution(PerNsBoth(vs[i].def, e), import_id)]

\* glob_imports.entry(importer).or_default().push((target, import_id)):
\* the entry keyed by the importing module.
RegisterGlobUnderImporter(globs, target, module_id, import_id) ==
    [globs EXCEPT ![module_id] = Append(@, <<target, import_id>>)]

\* glob_imports.entry(m.module_id).or_default().push((module_id, import_id))
RegisterGlob(globs, target, module_id, import_id) ==
    [globs EXCEPT ![target] = Append(@, <<module_id, import_id>>)]

NoUpdate(per_module) == [per_module |-> per_module, trace |-> <<>>, panic |-> FALSE]

\* What one resolve_import call returns (fp, def), whether it aborted, and the
\* Resolver's fields after it; upd is the state update_recursive left.
Outcome(fp, def, upd, extern_prelude, globs) ==
    [fp |-> fp, def |-> def, abort |-> IF upd.panic THEN "depth" ELSE "none",
     per_module |-> upd.per_module, trace |-> upd.trace,
     extern_prelude |-> extern_prelude, glob_imports |-> globs]

\* `import.path.segments.last().unwrap()` on a path without segments
UnwrapAbort(def) ==
    [fp |-> Yes, def |-> def, abort |-> "unwrap", per_module |-> result.per_module,
     trace |-> <<>>, extern_prelude |-> result.extern_prelude,
     glob_imports |-> glob_imports]

\* An insert into extern_prelude by an `extern crate` of any module.
ExternPreludeAfterInAnyModule(import, module_id, name, t) ==
    LET ep == result.extern_prelude
    IN IF import.is_extern_crate /\ t # None
       THEN [n \in DOMAIN ep \cup {name} |-> IF n = name THEN t ELSE ep[n]]
       ELSE ep

\* extern_prelude.insert(name, def) of an `extern crate` in the crate root
ExternPreludeAfter(import, module_id, name, t) ==
    LET ep == result.extern_prelude
    IN IF import.is_extern_crate /\ module_id = 1 /\ t # None
       THEN [n \in DOMAIN ep \cup {name} |-> IF n = name THEN t ELSE ep[n]]
       ELSE ep

\* A glob import of a module of another crate handled like one of a module
\* of this crate: also recorded in glob_imports under the module's id.
GlobAcrossCratesRecorded(module_id, import_id, def) ==
    Outcome(Yes, def,
        Update(result.per_module, module_id, import_id,
               DepItemMap.per_module[def.types.id]),
        result.extern_prelude,
        RegisterGlob(glob_imports, def.types.id, module_id, import_id))

\* resolve_import, `if m.krate != self.krate`: the scope of the module in the
\* other crate's ItemMap is imported once; glob_imports is left alone.
GlobAcrossCrates(module_id, import_id, def) ==
    Outcome(Yes, def,
        Update(result.per_module, module_id, import_id,
               DepItemMap.per_module[def.types.id]),
        result.extern_prelude, glob_imports)

\* resolve_import after resolve_path_fp returned r.
ResolveImportWith(module_id, import_id, import, r) ==
    IF r.fp # Yes
    THEN Outcome(r.fp, r.def, NoUpdate(result.per_module), result.extern_prelude,
                 glob_imports)
    ELSE IF import.is_glob THEN
        IF r.def.types.k = "Module" THEN
            IF r.def.types.krate # ThisCrate
            THEN GlobAcrossCrates(module_id, import_id, r.def)
            ELSE Outcome(Yes, r.def,
                    Update(result.per_module, module_id, import_id,
                           result.per_module[r.def.types.id]),
                    result.extern_prelude,
                    RegisterGlob(glob_imports, r.def.types.id, module_id, import_id))
        ELSE IF r.def.types.k = "Enum"
        THEN Outcome(Yes, r.def,
                Update(result.per_module, module_id, import_id,
                       EnumResolutions(r.def.types, import_id)),
                result.extern_prelude, glob_imports)
        ELSE Outcome(Yes, r.def, NoUpdate(result.per_module), result.extern_prelude,
                     glob_imports)
    ELSE IF Len(import.path.segments) = 0 THEN UnwrapAbort(r.def)
    ELSE Outcome(Yes, r.def,
            Update(result.per_module, module_id, NoImport,
                   VisibleName(import) :> Resolution(r.def, import_id)),
            ExternPreludeAfter(import, module_id, VisibleName(import), r.def.types),
            glob_imports)

\* resolve_import: what it returns and what it leaves in the Resolver.
ResolveImport(module_id, import_id) ==
    ResolveImportWith(module_id, import_id, input[module_id].imports[import_id],
        ResolvePathFp(result, Module(ThisCrate, module_id),
                      input[module_id].imports[import_id].path))

\* An insert into processed_imports that passes over glob imports.
MarkProcessedUnlessGlob(processed, module_id, import_id, fp) ==
    IF fp = Yes /\ ~input[module_id].imports[import_id].is_glob
    THEN processed \cup {<<module_id, import_id>>} ELSE processed

\* processed_imports.insert((module_id, import_id)) whatever resolve_import returned
MarkProcessedAlways(processed, module_id, import_id, fp) ==
    processed \cup {<<module_id, import_id>>}

\* resolve_imports: `if self.resolve_import(..) == ReachedFixedPoint::Yes { insert }`
MarkProcessed(processed, module_id, import_id, fp) ==
    IF fp = Yes THEN processed \cup {<<module_id, import_id>>} ELSE processed

\* The loop of resolve_imports left after its first attempt
\* (`break` at the end of the body): nothing is pending past the first import.
PendingFirstOnly(m, from, processed) ==
    {j \in ImportIds(m) : from = 1 /\ <<m, j>> \notin processed}

\* Imports of module m, from position `from` on, that resolve_imports has yet
\* to attempt: those not in processed_imports.
Pending(m, from, processed) ==
    {j \in ImportIds(m) : j >= from /\ <<m, j>> \notin processed}

Min(S) == CHOOSE x \in S : \A y \in S : x <= y

Namespaces == {"types", "values"}

\* The slot (module, name, namespace) of per_module holds a definition.
Filled(per_module, m, n, ns) ==
    /\ m \in DOMAIN per_module
    /\ n \in DOMAIN per_module[m]
    /\ per_module[m][n].def[ns] # None

\* The entries of module m with a slot that is empty in `before` and filled in `after`.
NewlyFilled(before, after, m) ==
    {n \in DOMAIN after[m] :
        \E ns \in Namespaces : Filled(after, m, n, ns) /\ ~Filled(before, m, n, ns)}

\* The slots of the entry `name` of scope `items` that update_recursive fills
\* from def: those empty in the entry and filled in def.
SlotsToFill(items, name, def) ==
    {ns \in Namespaces :
        /\ def[ns] # None
        /\ name \in DOMAIN items => items[name].def[ns] = None}

NoStep == [module |-> 0, import |-> 0, fp |-> No, def |-> PerNsNone, trace |-> <<>>]
NoRun == [done |-> FALSE, order |-> <<>>, result |-> EmptyItemMap]

\* item_map_query has returned nothing (yet).
NoItemMap == [some |-> FALSE, item_map |-> EmptyItemMap]

\* `Ok(Arc::new(item_map))` of item_map_query.
Returned(item_map) == [some |-> TRUE, item_map |-> item_map]

\* An abort that hands the caller the ItemMap built so far.
UnwindWithResult(kind, item_map) == [pc |-> kind, returned |-> Returned(item_map)]

\* `panic!`, `unwrap` on None and the abort of check_canceled: resolve does
\* not return, the Resolver and its ItemMap are dropped, the caller of
\* item_map_query gets no ItemMap.
Unwind(kind, item_map) == [pc |-> kind, returned |-> NoItemMap]

PanicOf(abort) == IF abort = "depth" THEN "panic_depth" ELSE "panic_unwrap"

\* The outcomes of a run that is not a returned ItemMap.
Aborts == {"canceled", "panic_sweep_cap", "panic_depth", "panic_unwrap"}

\* The outcome of check_canceled (ra_db) when cancellation was requested: the
\* whole run is aborted as cancelled.
Canceled == "canceled"

\* A poll of the cancellation flag made once per sweep, before its first module.
CheckCanceledOncePerSweep(flag, idx) == flag /\ idx = 1

\* `self.db.check_canceled()?` in the loop over the modules: the flag is
\* polled before the imports of every module.
CheckCanceledAt(flag, idx) == flag

NoCancel == [requested |-> FALSE, module |-> 0, attempts |-> 0]

InitWith(menu, scap, dcap) ==
    /\ input \in Inputs(menu)
    /\ order \in Orders
    /\ sweep_cap = scap
    /\ depth_cap = dcap
    /\ canceled = FALSE
    /\ pc = "start"
    /\ mod_idx = 1
    /\ imp_idx = 1
    /\ iter = 0
    /\ processed_imports_count = 0
    /\ processed_imports = {}
    /\ glob_imports = [m \in ModuleIds |-> <<>>]
    /\ result = EmptyItemMap
    /\ module_items = EmptyScope
    /\ last_step = NoStep
    /\ fixed = [p \in {} |-> PerNsNone]
    /\ late = {}
    /\ first_run = NoRun
    /\ returned = NoItemMap
    /\ cancel_log = NoCancel
    /\ wrote = [p \in {} |-> {}]
    /\ sweep_start = EmptyItemMap

\* An insert that keeps only the scopes of modules with child modules.
InsertScopeOfParents(per_module, module_id, items) ==
    IF TreeChildren(ThisCrate, module_id) = <<>>
    THEN per_module ELSE (module_id :> items) @@ per_module

\* populate_module: self.result.per_module.insert(module_id, module_items)
InsertScope(per_module, module_id, items) ==
    (module_id :> items) @@ per_module

\* resolve: self.populate_extern_prelude()
PopulateExternPrelude ==
    /\ pc = "start"
    /\ result' = [result EXCEPT !.extern_prelude = ExternPreludeOfDependencies]
    /\ pc' = "populate_imports"
    /\ UNCHANGED <<env, order, canceled, mod_idx, imp_idx, iter, processed_imports_count,
                   processed_imports, glob_imports, module_items, last_step, fixed, late,
                   first_run, returned, cancel_log, wrote,
                   sweep_start>>

\* populate_module: the loop over the imports of the module
PopulateImports ==
    /\ pc = "populate_imports"
    /\ module_items' = SeedImports(input[order[mod_idx]].imports)
    /\ pc' = "populate_declarations"
    /\ UNCHANGED <<env, order, canceled, mod_idx, imp_idx, iter, processed_imports_count,
                   processed_imports, glob_imports, result, last_step, fixed, late,
                   first_run, returned, cancel_log, wrote,
                   sweep_start>>

\* populate_module: the loop over the declarations of the module
PopulateDeclarations ==
    /\ pc = "populate_declarations"
    /\ module_items' = SeedDeclarations(module_items, input[order[mod_idx]].declarations)
    /\ pc' = "populate_modules"
    /\ UNCHANGED <<env, order, canceled, mod_idx, imp_idx, iter, processed_imports_count,
                   processed_imports, glob_imports, result, last_step, fixed, late,
                   first_run, returned, cancel_log, wrote,
                   sweep_start>>

\* populate_module: the loop over the child modules and the insert of the
\* scope into result.per_module; then the next module of the populate loop
PopulateModules ==
    /\ pc = "populate_modules"
    /\ result' = [result EXCEPT !.per_module =
                     InsertScope(@, order[mod_idx],
                                 SeedChildren(module_items, order[mod_idx]))]
    /\ module_items' = EmptyScope
    /\ IF mod_idx = Len(order)
       THEN pc' = "loop" /\ mod_idx' = 1
       ELSE pc' = "populate_imports" /\ mod_idx' = mod_idx + 1
    /\ UNCHANGED <<env, order, canceled, imp_idx, iter, processed_imports_count,
                   processed_imports, glob_imports, last_step, fixed, late, first_run,
                   returned, cancel_log, wrote,
                   sweep_start>>

\* resolve: the head of `loop`: the cap and the count of processed imports
LoopHead ==
    /\ pc = "loop"
    /\ iter' = iter + 1
    /\ sweep_start' = result
    /\ IF iter + 1 > sweep_cap
       THEN /\ pc' = Unwind("panic_sweep_cap", result).pc
            /\ returned' = Unwind("panic_sweep_cap", result).returned
            /\ UNCHANGED <<processed_imports_count, mod_idx>>
       ELSE /\ pc' = "modules"
            /\ processed_imports_count' = Cardinality(processed_imports)
            /\ mod_idx' = 1
            /\ UNCHANGED returned
    /\ UNCHANGED <<env, order, canceled, imp_idx, processed_imports, glob_imports, result,
                   module_items, last_step, fixed, late, first_run, cancel_log, wrote>>

\* resolve: check_canceled() before a module, and the entry of resolve_imports
CheckCanceled ==
    /\ pc = "modules"
    /\ mod_idx <= Len(order)
    /\ LET pending == Pending(order[mod_idx], 1, processed_imports)
       IN IF CheckCanceledAt(canceled, mod_idx)
          THEN /\ pc' = Unwind(Canceled, result).pc
               /\ returned' = Unwind(Canceled, result).returned
               /\ UNCHANGED <<mod_idx, imp_idx>>
          ELSE IF pending = {}
          THEN pc' = pc /\ mod_idx' = mod_idx + 1 /\ UNCHANGED <<imp_idx, returned>>
          ELSE pc' = "imports" /\ imp_idx' = Min(pending) /\ UNCHANGED <<mod_idx, returned>>
    /\ UNCHANGED <<env, order, canceled, iter, processed_imports_count, processed_imports,
                   glob_imports, result, module_items, last_step, fixed, late, first_run,
                   cancel_log, wrote,
                   sweep_start>>

\* The Resolver after resolve_import left outcome o for import imp_idx of
\* module_id, and the move to the next pending import or the next module.
AfterImport(module_id, o, done) ==
    /\ last_step' = [module |-> module_id, import |-> imp_idx, fp |-> o.fp,
                     def |-> o.def, trace |-> o.trace]
    /\ IF o.abort # "none"
       THEN /\ pc' = Unwind(PanicOf(o.abort), result).pc
            /\ returned' = Unwind(PanicOf(o.abort), result).returned
            /\ UNCHANGED <<processed_imports, glob_imports, result, mod_idx, imp_idx,
                           fixed, late, wrote>>
       ELSE /\ processed_imports' = done
            /\ UNCHANGED returned
            /\ glob_imports' = o.glob_imports
            /\ result' = [extern_prelude |-> o.extern_prelude,
                          per_module |-> o.per_module]
            /\ fixed' = IF o.fp = Yes
                        THEN (<<module_id, imp_idx>> :> o.def) @@ fixed ELSE fixed
            /\ wrote' = IF o.fp = Yes /\ ~input[module_id].imports[imp_idx].is_glob
                        THEN (<<module_id, imp_idx>> :>
                                 SlotsToFill(result.per_module[module_id],
                                             VisibleName(input[module_id].imports[imp_idx]),
                                             o.def)) @@ wrote
                        ELSE wrote
            /\ late' = late \cup
                  {<<m, n>> \in (ModuleIds \ {module_id}) \X
                                UNION {DOMAIN o.per_module[m] : m \in ModuleIds} :
                      n \in NewlyFilled(result.per_module, o.per_module, m)}
            /\ IF Pending(module_id, imp_idx + 1, done) = {}
               THEN pc' = "modules" /\ mod_idx' = mod_idx + 1 /\ UNCHANGED imp_idx
               ELSE /\ pc' = pc
                    /\ imp_idx' = Min(Pending(module_id, imp_idx + 1, done))
                    /\ UNCHANGED mod_idx

\* resolve_imports: the insert into processed_imports after resolve_import
\* returned outcome o.
ImportAttempt(module_id, o) ==
    AfterImport(module_id, o, MarkProcessed(processed_imports, module_id, imp_idx, o.fp))

\* resolve_imports: one iteration on an import not yet processed
ResolveImports ==
    /\ pc = "imports"
    /\ ImportAttempt(order[mod_idx], ResolveImport(order[mod_idx], imp_idx))
    /\ cancel_log' = IF canceled
                     THEN [cancel_log EXCEPT !.attempts = @ + 1] ELSE cancel_log
    /\ UNCHANGED <<env, order, canceled, iter, processed_imports_count, module_items,
                   first_run, sweep_start>>

\* A loop left after its first sweep, whatever the sweep processed.
BreakAfterFirstSweep(count, processed) == TRUE

\* A loop that goes on until every import is in processed_imports.
NoImportsLeft(count, processed) ==
    \A m \in ModuleIds : \A j \in ImportIds(m) : <<m, j>> \in processed

\* `if processed_imports_count == self.processed_imports.len() { break }`
NoNewImports(count, processed) == count = Cardinality(processed)

\* resolve: the end of a sweep: break when no new import was processed
SweepEnd ==
    /\ pc = "modules"
    /\ mod_idx > Len(order)
    /\ IF NoNewImports(processed_imports_count, processed_imports)
       THEN pc' = "done" /\ returned' = Returned(result)
       ELSE pc' = "loop" /\ UNCHANGED returned
    /\ UNCHANGED <<env, order, canceled, mod_idx, imp_idx, iter, processed_imports_count,
                   processed_imports, glob_imports, result, module_items, last_step,
                   fixed, late, first_run, cancel_log, wrote,
                   sweep_start>>

\* item_map_query asked again for the same input, the hash map iterating in
\* another order: a new Resolver, the first run's ItemMap kept for comparison.
Rerun ==
    /\ pc = "done"
    /\ ~first_run.done
    /\ first_run' = [done |-> TRUE, order |-> order, result |-> result]
    /\ order' \in Orders \ {order}
    /\ pc' = "start"
    /\ mod_idx' = 1
    /\ imp_idx' = 1
    /\ iter' = 0
    /\ processed_imports_count' = 0
    /\ processed_imports' = {}
    /\ glob_imports' = [m \in ModuleIds |-> <<>>]
    /\ result' = EmptyItemMap
    /\ last_step' = NoStep
    /\ fixed' = [p \in {} |-> PerNsNone]
    /\ late' = {}
    /\ returned' = NoItemMap
    /\ wrote' = [p \in {} |-> {}]
    /\ sweep_start' = EmptyItemMap
    /\ UNCHANGED <<env, canceled, module_items, cancel_log>>

\* A hash map whose hasher is seeded at random: any order on any run.
RandomIterationOrders(o) == Orders

\* The orders in which the FxHashMap `input` of a second item_map_query on the
\* same input iterates: FxHasher has no random state and the map is collected
\* from the same module tree, so the order is the one of the first run.
IterationOrders(o) == {o}

\* item_map_query asked again for the same input: a new Resolver on an equal
\* `input` map, the first run's ItemMap kept for comparison.
RerunSame ==
    /\ pc = "done"
    /\ ~first_run.done
    /\ first_run' = [done |-> TRUE, order |-> order, result |-> result]
    /\ order' \in IterationOrders(order)
    /\ pc' = "start"
    /\ mod_idx' = 1
    /\ imp_idx' = 1
    /\ iter' = 0
    /\ processed_imports_count' = 0
    /\ processed_imports' = {}
    /\ glob_imports' = [m \in ModuleIds |-> <<>>]
    /\ result' = EmptyItemMap
    /\ last_step' = NoStep
    /\ fixed' = [p \in {} |-> PerNsNone]
    /\ late' = {}
    /\ returned' = NoItemMap
    /\ wrote' = [p \in {} |-> {}]
    /\ sweep_start' = EmptyItemMap
    /\ UNCHANGED <<env, canceled, module_items, cancel_log>>

\* The database is written to while the query runs: the cancellation flag is
\* raised, at any point of the sweep loop.
RequestCancel ==
    /\ pc \in {"loop", "modules", "imports"}
    /\ ~canceled
    /\ canceled' = TRUE
    /\ cancel_log' = [requested |-> TRUE,
                      module |-> IF pc = "imports" THEN order[mod_idx] ELSE 0,
                      attempts |-> 0]
    /\ UNCHANGED <<env, order, pc, mod_idx, imp_idx, iter, processed_imports_count,
                   processed_imports, glob_imports, result, module_items, last_step,
                   fixed, late, first_run, returned, wrote, sweep_start>>

Next ==
    \/ PopulateExternPrelude
    \/ PopulateImports
    \/ PopulateDeclarations
    \/ PopulateModules
    \/ LoopHead
    \/ CheckCanceled
    \/ ResolveImports
    \/ SweepEnd

\* One run of the Resolver with the caps of the source.
Init == InitWith(GlobMenu, SweepCap, DepthCap)
Spec == Init /\ [][Next]_vars

\* Two runs on the same input, in different orders.
NextOrder == Next \/ Rerun
SpecOrder == Init /\ [][NextOrder]_vars

\* Two runs on the same input.
NextTwice == Next \/ RerunSame
SpecTwice == Init /\ [][NextTwice]_vars

\* One run with the caps scaled to the size of the inputs.
InitCaps == InitWith(GlobMenu, ScaledSweepCap, ScaledDepthCap)
SpecCaps == InitCaps /\ [][Next]_vars

\* One run on glob imports with the depth cap of the source or the scaled one.
InitDepth == \E dcap \in {ScaledDepthCap, DepthCap} : InitWith(GlobMenu, SweepCap, dcap)
SpecDepth == InitDepth /\ [][Next]_vars

\* One run on imports of names the importing module or the extern prelude
\* already has.
InitShadow == InitWith(ShadowMenu, SweepCap, DepthCap)
SpecShadow == InitShadow /\ [][Next]_vars

\* One run on imports whose paths have no segments.
InitNoSegment == InitWith(NoSegmentMenu, SweepCap, DepthCap)
SpecNoSegment == InitNoSegment /\ [][Next]_vars

\* One run with the scaled caps during which cancellation may be requested.
NextAbort == Next \/ RequestCancel
SpecAbort == InitCaps /\ [][NextAbort]_vars

\* One run on imports whose paths start with a name, looked up by
\* resolve_name_in_module.
InitPlain == InitWith(PlainMenu, SweepCap, DepthCap)
SpecPlain == InitPlain /\ [][Next]_vars

\* One run on imports whose first segment names nothing.
InitErr == InitWith(ErrMenu, SweepCap, DepthCap)
SpecErr == InitErr /\ [][Next]_vars

\* One run on glob imports of an enum.
InitEnum == InitWith(EnumMenu, SweepCap, DepthCap)
SpecEnum == InitEnum /\ [][Next]_vars

\* One run on paths through enums, structs and missing names.
InitPath == InitWith(PathMenu, SweepCap, DepthCap)
SpecPath == InitPath /\ [][Next]_vars

\* One run on extern crate imports and paths into another crate.
InitForeign == InitWith(ForeignMenu, SweepCap, DepthCap)
SpecForeign == InitForeign /\ [][Next]_vars

\* ------------------------------------------------------------ properties

\* The sweep loop is running or has ended: every module has its scope.
Populated ==
    pc \notin {"start", "populate_imports", "populate_declarations", "populate_modules"}

\* The module scopes of the run: those of the ItemMap and the one
\* populate_module is building.
Scopes ==
    IF pc \in {"populate_declarations", "populate_modules"}
    THEN (order[mod_idx] :> module_items) @@ result.per_module
    ELSE result.per_module

\* The module a glob import g of module a resolves to in the ItemMap im
\* (0: no module of this crate).
GlobTargetIn(im, a, g) ==
    LET imp == input[a].imports[g]
        t == ResolvePathFp(im, Module(ThisCrate, a), imp.path).def.types
    IN IF imp.is_glob /\ t.k = "Module" /\ t.krate = ThisCrate THEN t.id ELSE 0

GlobTarget(a, g) == GlobTargetIn(result, a, g)

\* C1: once a (module, name, namespace) slot holds a definition, seeding
\* included, it holds that same definition in every later state of the run:
\* no step replaces or empties it.
SlotsNeverOverwritten ==
    [][\A m \in DOMAIN Scopes : \A n \in DOMAIN Scopes[m] : \A ns \in Namespaces :
          Filled(Scopes, m, n, ns) =>
              /\ Filled(Scopes', m, n, ns)
              /\ Scopes'[m][n].def[ns] = Scopes[m][n].def[ns]]_vars

\* C9: processed_imports only grows, and the import resolve_imports adds is
\* the one it just attempted and whose path resolved with ReachedFixedPoint::Yes.
ProcessedOnlyAtFixedPoint ==
    [][/\ processed_imports \subseteq processed_imports'
       /\ \A p \in processed_imports' \ processed_imports :
             /\ pc = "imports"
             /\ p = <<order[mod_idx], imp_idx>>
             /\ ResolvePathFp(result, Module(ThisCrate, p[1]),
                              input[p[1]].imports[p[2]].path).fp = Yes]_vars

\* A run that ended with some imports processed and one that every sweep
\* attempted and left pending.
SomeProcessedSomePending ==
    /\ pc = "done"
    /\ processed_imports # {}
    /\ \E m \in ModuleIds : \E i \in ImportIds(m) : <<m, i>> \notin processed_imports
    /\ last_step.fp = No

\* Every (importer, import) pair of the index names a glob import of the
\* importer that resolves, in the type namespace, to the module it is listed under.
GlobIndexSound(globs, im) ==
    \A b \in ModuleIds : \A k \in DOMAIN globs[b] :
        LET a == globs[b][k][1]
            g == globs[b][k][2]
        IN /\ a \in ModuleIds
           /\ g \in 1..Len(input[a].imports)
           /\ GlobTargetIn(im, a, g) = b

\* C10: the glob-import index only grows (every list is extended at its end),
\* and each of its pairs is a glob import of a module of this crate that
\* resolved to the module it is registered on.
GlobIndexGrowsAndIsSound ==
    [][/\ \A b \in ModuleIds :
             /\ Len(glob_imports[b]) <= Len(glob_imports'[b])
             /\ SubSeq(glob_imports'[b], 1, Len(glob_imports[b])) = glob_imports[b]
       /\ GlobIndexSound(glob_imports', result')]_vars

\* Two glob imports are registered on the same module.
TwoGlobsRegisteredOnOneModule ==
    \E b \in ModuleIds : Len(glob_imports[b]) >= 2

\* C4: in the ItemMap the run returns, a module with a processed glob import
\* of a module of the same crate holds every slot the target holds.
GlobImportsComplete ==
    pc = "done" =>
        \A a \in ModuleIds : \A g \in ImportIds(a) :
            (<<a, g>> \in processed_imports /\ GlobTarget(a, g) # 0) =>
                \A n \in DOMAIN result.per_module[GlobTarget(a, g)] :
                    \A ns \in Namespaces :
                        Filled(result.per_module, GlobTarget(a, g), n, ns) =>
                            Filled(result.per_module, a, n, ns)

\* A returned ItemMap where a name reached the importer of a glob import by
\* propagation, after the glob import was processed.
GlobReceivedLateName ==
    /\ pc = "done"
    /\ \E x \in late :
          LET g == result.per_module[x[1]][x[2]].import
          IN /\ g \in ImportIds(x[1])
             /\ <<x[1], g>> \in processed_imports
             /\ GlobTarget(x[1], g) # 0

\* C5: when a resolve_import call changes a module, every module with a glob
\* import registered on it receives the batch, and the slots the batch fills
\* there carry the id of the receiver's own registered glob import.
PropagationTagsWithReceiversGlob ==
    [][(pc = "imports" /\ pc' \notin {"panic_depth", "panic_unwrap"}) =>
         /\ \A b \in ModuleIds : \A k \in DOMAIN glob_imports[b] :
               \A n \in NewlyFilled(result.per_module, result'.per_module, b) :
                   \A ns \in Namespaces :
                       (/\ Filled(result'.per_module, b, n, ns)
                        /\ ~Filled(result.per_module, b, n, ns))
                       => Filled(result'.per_module, glob_imports[b][k][1], n, ns)
         /\ \A a \in ModuleIds \ {order[mod_idx]} :
               \A n \in NewlyFilled(result.per_module, result'.per_module, a) :
                   \E b \in ModuleIds : \E k \in DOMAIN glob_imports[b] :
                       /\ NewlyFilled(result.per_module, result'.per_module, b) # {}
                       /\ glob_imports[b][k] = <<a, result'.per_module[a][n].import>>
                       /\ input[a].imports[result'.per_module[a][n].import].is_glob]_vars

\* A resolve_import call whose batch went two hops: a module changed at depth 2.
PropagatedTwoHops ==
    \E i \in DOMAIN last_step.trace :
        last_step.trace[i].depth = 2 /\ last_step.trace[i].changed

\* C3: a path that resolve_path_fp resolved with ReachedFixedPoint::Yes to R
\* for a module still resolves to R from that module in every later state of
\* the ItemMap, the returned one included.
FixedPointResultsAreFinal ==
    Populated =>
        \A p \in DOMAIN fixed :
            ResolvePathFp(result, Module(ThisCrate, p[1]),
                          input[p[1]].imports[p[2]].path).def = fixed[p]

\* C2: for a fixed input the returned ItemMap is the same whatever the order
\* in which the sweeps visit the modules.
ResultIndependentOfOrder ==
    (pc = "done" /\ first_run.done) => result = first_run.result

\* The names of the run: those of any scope or of the extern prelude, and one
\* that is in neither.
KnownNames ==
    UNION {DOMAIN result.per_module[m] : m \in DOMAIN result.per_module}
        \cup DOMAIN result.extern_prelude \cup {"nowhere"}

\* C6 as stated: whenever the scope of a module has an entry for a name,
\* resolve_name_in_module returns exactly that entry's definition, the extern
\* prelude contributing nothing.
ScopeEntryHidesPrelude ==
    Populated =>
        \A m \in ModuleIds : \A n \in DOMAIN result.per_module[m] :
            ResolveNameInModule(result, Module(ThisCrate, m), n) = result.per_module[m][n].def

\* C6: resolve_name_in_module falls back per namespace: a filled slot of the
\* scope entry is returned as it is; the extern prelude supplies the Types
\* slot exactly when the scope has no entry or its entry's Types slot is
\* empty; the Values slot never comes from the extern prelude.
ScopeSlotHidesPrelude ==
    Populated =>
        \A m \in ModuleIds : \A n \in KnownNames :
            LET r == ResolveNameInModule(result, Module(ThisCrate, m), n)
            IN /\ \A ns \in Namespaces :
                     Filled(result.per_module, m, n, ns) =>
                         r[ns] = result.per_module[m][n].def[ns]
               /\ ~Filled(result.per_module, m, n, "types") =>
                     r.types = IF n \in DOMAIN result.extern_prelude
                               THEN result.extern_prelude[n] ELSE None
               /\ ~Filled(result.per_module, m, n, "values") => r.values = None

\* resolve_import just resolved a one-segment path `d` in a module whose
\* entry for d has Values only, to the prelude's crate and the entry's value;
\* another module's entry for d has its Types slot filled.
PreludeFilledTypesOnly ==
    /\ Populated
    /\ last_step.module # 0
    /\ LET m == last_step.module
           path == input[m].imports[last_step.import].path
       IN /\ path.kind = "Plain"
          /\ Len(path.segments) = 1
          /\ path.segments[1] \in DOMAIN result.extern_prelude
          /\ Filled(result.per_module, m, path.segments[1], "values")
          /\ last_step.def.types = result.extern_prelude[path.segments[1]]
          /\ last_step.def.values # None
          /\ \E b \in ModuleIds : Filled(result.per_module, b, path.segments[1], "types")

\* Module a has a glob import that resolves to module b of this crate.
GlobEdge(a, b) == \E g \in ImportIds(a) : GlobTarget(a, g) = b

\* The same-crate glob imports of the input form a cycle (a module globbing
\* itself included).
HasGlobCycle ==
    \E c \in SeqsUpTo(ModuleIds, Cardinality(ModuleIds)) :
        /\ Len(c) >= 1
        /\ \A i \in 1..(Len(c) - 1) : GlobEdge(c[i], c[i + 1])
        /\ GlobEdge(c[Len(c)], c[1])

\* Every branch of the update_recursive calls in `trace` ends at a module where
\* no slot changed (or that no module glob-imports): a changed module with
\* importers is followed by the call on its first importer.
PropagationStopsAtUnchanged(trace) ==
    \A i \in DOMAIN trace :
        (trace[i].changed /\ trace[i].importers > 0) =>
            /\ i < Len(trace)
            /\ trace[i + 1].depth = trace[i].depth + 1

\* C8: when the same-crate glob imports form a cycle, every update
\* propagation stops at a module where no slot changes and the run reaches
\* neither the cap on sweeps nor the cap on the recursion depth.
GlobCyclesConvergeBelowCaps ==
    (Populated /\ (pc \in {"panic_sweep_cap", "panic_depth"}
                    \/ ~PropagationStopsAtUnchanged(last_step.trace)))
        => ~HasGlobCycle

\* The module whose scope resolve_path_fp looks segment k of the path up in,
\* for import p = (module, import id) in the current ItemMap; 0: none of this crate.
LookupModule(p, k) ==
    LET path == input[p[1]].imports[p[2]].path
        t == ResolvePathFp(result, Module(ThisCrate, p[1]),
                           Path(path.kind, SubSeq(path.segments, 1, k - 1))).def.types
    IN IF k = 1
       THEN CASE path.kind = "Plain" -> p[1]
              [] path.kind = "Self" -> p[1]
              [] path.kind = "Crate" -> 1
              [] path.kind = "Super" -> TreeParent(ThisCrate, p[1])
              [] OTHER -> 0
       ELSE IF t.k = "Module" /\ t.krate = ThisCrate THEN t.id ELSE 0

\* The imports of the input, as (module, import id) pairs.
Imports == {p \in ModuleIds \X (1..MaxImports) : p[2] \in ImportIds(p[1])}

\* Import q can write the entry that segment k of the path of import p reads:
\* q is an import of the module looked up in and is a glob import or is
\* visible under the name of the segment.
WritesSegment(q, p, k) ==
    LET imp == input[q[1]].imports[q[2]]
    IN /\ q[1] = LookupModule(p, k)
       /\ \/ imp.is_glob
          \/ /\ Len(imp.path.segments) > 0
             /\ VisibleName(imp) = input[p[1]].imports[p[2]].path.segments[k]

\* Import p depends on import q: q can write an entry the path of p reads, or
\* p is a glob import of the module q is an import of.
DependsOn(p, q) ==
    \/ \E k \in DOMAIN input[p[1]].imports[p[2]].path.segments : WritesSegment(q, p, k)
    \/ GlobTarget(p[1], p[2]) = q[1]

Max(S) == CHOOSE x \in S : \A y \in S : x >= y

\* The import dependency graph, as a table over the pairs of imports.
ImportGraph == [e \in Imports \X Imports |-> DependsOn(e[1], e[2])] @@ <<>>

\* For every import, the number of imports of the longest chain of the graph
\* deps (each import depending on the next) that starts there and has at
\* most n imports.
RECURSIVE ChainLengths(_, _)
ChainLengths(deps, n) ==
    IF n = 0 THEN [p \in Imports |-> 0]
    ELSE LET shorter == ChainLengths(deps, n - 1)
         IN [p \in Imports |->
                1 + Max({0} \cup {shorter[q] : q \in {x \in Imports : deps[<<p, x>>]}})]
            @@ <<>>

\* The longest chain, cut at one import more than the input has: with a
\* cycle the chains grow without end and reach the cut.
LongestChainIn(deps) ==
    Max({0} \cup {ChainLengths(deps, Cardinality(Imports) + 1)[p] : p \in Imports})

LongestChain == LongestChainIn(ImportGraph)

\* No chain comes back to one of its imports.
Acyclic == LongestChain <= Cardinality(Imports)

SweepStarted == (pc = "modules" /\ mod_idx = 1) \/ pc = "panic_sweep_cap"

AbortedRunReturnsNothing ==
    [][/\ pc \notin Aborts
       /\ returned'.some => (pc' = "done" /\ returned'.item_map = result')
       /\ pc' \in Aborts => ~returned'.some]_vars

\* A run cancelled after it had resolved imports: the caller has nothing.
CancelledAfterPartialResolution ==
    /\ pc = "canceled"
    /\ processed_imports # {}
    /\ \E m \in ModuleIds : \E n \in DOMAIN result.per_module[m] :
          /\ result.per_module[m][n].import # NoImport
          /\ Filled(result.per_module, m, n, "types")
    /\ ~returned.some

\* C12 as stated: once cancellation is requested in the sweep loop, only the
\* module in progress finishes its imports and the run then aborts as
\* cancelled: it does not return an ItemMap.
CancelRequestAbortsRun ==
    /\ (cancel_log.requested /\ pc = "imports") => order[mod_idx] = cancel_log.module
    /\ cancel_log.requested => pc # "done"

\* C12: after a cancellation request only imports of the module in progress at
\* the request are attempted, and the next poll (before the next module of
\* this or a later sweep) aborts the run as cancelled.
CancelStopsAtNextPoll ==
    [][cancel_log.requested =>
          /\ pc = "imports" => order[mod_idx] = cancel_log.module
          /\ (pc = "modules" /\ mod_idx <= Len(order)) => pc' = "canceled"]_vars

\* The module in progress went on with its imports after the request, and
\* the poll before the next module aborted the run.
CancelledAfterFinishingModule ==
    /\ pc = "canceled"
    /\ cancel_log.module # 0
    /\ cancel_log.attempts >= 1

\* C14: the sweep-cap abort is unreachable: on every input the sweep loop
\* breaks on a sweep without a new processed import before the iteration
\* counter exceeds the cap.
SweepCapUnreachable == pc # "panic_sweep_cap"

\* C20: right after the seeding phase every module's scope holds each of its
\* declared items with exactly the declared PerNs and, for each child module,
\* an entry with the child in the Types slot: neither replaced the other.
SeedingKeepsDeclarationsAndChildren ==
    (pc = "loop" /\ iter = 0) =>
        \A m \in ModuleIds :
            /\ \A n \in DOMAIN input[m].declarations :
                  /\ n \in DOMAIN result.per_module[m]
                  /\ result.per_module[m][n].def = input[m].declarations[n]
            /\ \A i \in DOMAIN TreeChildren(ThisCrate, m) :
                  LET child == TreeChildren(ThisCrate, m)[i]
                  IN /\ child[1] \in DOMAIN result.per_module[m]
                     /\ result.per_module[m][child[1]].def.types =
                            ModuleDefOf(ThisCrate, child[2])

\* The definition a module scope has for a name, if any.
FromScope(im, m, n) ==
    IF n \in DOMAIN im.per_module[m] THEN im.per_module[m][n].def ELSE PerNsNone

\* The definition the extern prelude has for a name, if any.
FromExternPrelude(im, n) ==
    IF n \in DOMAIN im.extern_prelude THEN PerNsTypes(im.extern_prelude[n]) ELSE PerNsNone

\* C19: PerNs::or(a, b) is a slot-wise fallback: in each namespace on its own
\* the result has a's slot when that slot is filled and b's slot otherwise
\* (before every import attempt and in the returned ItemMap: a the definition
\* of any scope entry; b what the extern prelude or the scope of any module
\* has under the same name).
PerNsOrIsSlotWise ==
    pc \in {"imports", "done"} =>
        \A m \in DOMAIN result.per_module : \A n \in DOMAIN result.per_module[m] :
            \A k \in {0} \cup DOMAIN result.per_module :
                LET a == result.per_module[m][n].def
                    b == IF k = 0 THEN FromExternPrelude(result, n)
                         ELSE FromScope(result, k, n)
                IN PerNsOr(a, b) =
                      [ns \in Namespaces |-> IF a[ns] # None THEN a[ns] ELSE b[ns]]

\* The import about to be attempted starts with a name for which the module
\* has only a value and the extern prelude a crate: the lookup of that name
\* gets one slot from each.
OrTookOneSlotFromEach ==
    /\ pc = "imports"
    /\ input[order[mod_idx]].imports[imp_idx].path.kind = "Plain"
    /\ LET n == input[order[mod_idx]].imports[imp_idx].path.segments[1]
           a == FromScope(result, order[mod_idx], n)
           b == FromExternPrelude(result, n)
       IN /\ a.types = None /\ a.values # None
          /\ b.types # None
          /\ PerNsOr(a, b) = ResolveNameInModule(result, Module(ThisCrate, order[mod_idx]), n)
          /\ PerNsOr(a, b) = PerNs(b.types, a.values)

\* Import i of module m is a non-glob import whose path starts with a name
\* that resolve_name_in_module finds neither in the scope of m nor in the
\* extern prelude of ItemMap im.
NamesNothing(im, m, i) ==
    LET import == input[m].imports[i]
    IN /\ ~import.is_glob
       /\ ~import.is_extern_crate
       /\ import.path.kind = "Plain"
       /\ Len(import.path.segments) >= 1
       /\ IsNone(ResolveNameInModule(im, Module(ThisCrate, m), import.path.segments[1]))

\* Nothing but import i of module m can supply the name n to m: no
\* declaration, no child module, no other import of that name, no glob.
OnlySupplier(m, i, n) ==
    /\ n \notin DOMAIN input[m].declarations
    /\ \A c \in DOMAIN TreeChildren(ThisCrate, m) : TreeChildren(ThisCrate, m)[c][1] # n
    /\ \A j \in ImportIds(m) \ {i} :
          ~input[m].imports[j].is_glob /\ VisibleName(input[m].imports[j]) # n

\* C13 as stated: in the returned ItemMap the visible name of an import whose
\* first segment names nothing is absent from the importer's scope, and the
\* run has not aborted.
UnresolvableImportNameAbsent ==
    /\ pc \notin Aborts
    /\ pc = "done" =>
          \A m \in ModuleIds : \A i \in ImportIds(m) :
              NamesNothing(result, m, i) =>
                  VisibleName(input[m].imports[i]) \notin DOMAIN result.per_module[m]

\* The entry of import i of module m in ItemMap im is the seeded placeholder.
PlaceholderKept(im, m, i) ==
    LET n == VisibleName(input[m].imports[i])
    IN /\ n \in DOMAIN im.per_module[m]
       /\ OnlySupplier(m, i, n) => im.per_module[m][n] = Resolution(PerNsNone, i)

\* C13: an attempt at an import whose first segment names nothing changes no
\* scope and does not abort the run; in the returned ItemMap the visible name
\* of such an import is a key of the importer's scope, and when nothing else
\* supplies that name the entry is the placeholder of the seeding phase: both
\* slots empty, import field the import's id.
UnresolvableImportLeavesPlaceholder ==
    [][/\ (pc = "imports" /\ NamesNothing(result, order[mod_idx], imp_idx)) =>
             (result' = result /\ pc' \notin Aborts)
       /\ pc' = "done" =>
             \A m \in ModuleIds : \A i \in ImportIds(m) :
                 NamesNothing(returned'.item_map, m, i) =>
                     PlaceholderKept(returned'.item_map, m, i)]_vars

\* A run that resolved other imports returned an ItemMap in which
\* `use bad::Thing` is still the placeholder, the import never processed.
PlaceholderReturned ==
    /\ pc = "done"
    /\ processed_imports # {}
    /\ \E m \in ModuleIds : \E i \in ImportIds(m) :
          /\ NamesNothing(result, m, i)
          /\ Len(input[m].imports[i].path.segments) = 2
          /\ <<m, i>> \notin processed_imports
          /\ OnlySupplier(m, i, "Thing")
          /\ returned.item_map.per_module[m]["Thing"] = Resolution(PerNsNone, i)

\* The modules of this crate that the run looks up by id: the module
\* definitions in the scopes of ItemMap im (glob targets, path segment
\* containers), the crate root, and the modules of the glob index (update
\* targets).
ModulesLookedUp(im, globs) ==
    LET defs == UNION {{im.per_module[m][n].def.types : n \in DOMAIN im.per_module[m]} :
                          m \in DOMAIN im.per_module}
    IN {d.id : d \in {x \in defs : x.k = "Module" /\ x.krate = ThisCrate}}
       \cup {1}
       \cup {m \in DOMAIN globs : globs[m] # <<>>}
       \cup UNION {{globs[m][k][1] : k \in DOMAIN globs[m]} : m \in DOMAIN globs}

\* C17: once the populate loop is over the ItemMap has a scope for every
\* module of the module tree, so every module the run looks up by id (update
\* target, glob target, path segment container) has a scope; the returned
\* ItemMap has a scope for every module.
EveryModuleHasScope ==
    /\ Populated =>
          /\ DOMAIN result.per_module = ModuleIds
          /\ ModulesLookedUp(result, glob_imports) \subseteq DOMAIN result.per_module
    /\ returned.some => DOMAIN returned.item_map.per_module = ModuleIds

\* A completed run that looked up a glob target and its importer by id.
ReturnedAfterGlobLookups ==
    /\ returned.some
    /\ DOMAIN returned.item_map.per_module = ModuleIds
    /\ \E m \in ModuleIds : \E k \in DOMAIN glob_imports[m] :
          /\ glob_imports[m][k][1] # m
          /\ \E n \in DOMAIN result.per_module[glob_imports[m][k][1]] :
                result.per_module[glob_imports[m][k][1]][n].import = glob_imports[m][k][2]

MergedInto(before, after, n, res, id) ==
    LET old == IF n \in DOMAIN before THEN before[n] ELSE DefaultResolution
    IN /\ n \in DOMAIN after
       /\ \A ns \in Namespaces :
             after[n].def[ns] = IF old.def[ns] # None THEN old.def[ns] ELSE res[ns]
       /\ after[n].import =
             IF \E ns \in Namespaces : old.def[ns] = None /\ res[ns] # None
             THEN id ELSE old.import

\* C16: a glob import whose path resolves in the Types namespace to an enum E
\* adds to the importing module an entry for every named variant of E and
\* for nothing else: the slots of the entry that were empty get
\* PerNs::both(variant, E), the filled ones are kept, and the import field is
\* the id of the glob import.
EnumGlobAddsVariants ==
    [][(/\ pc = "imports"
        /\ input[order[mod_idx]].imports[imp_idx].is_glob
        /\ last_step'.fp = Yes
        /\ last_step'.def.types.k = "Enum"
        /\ pc' \notin Aborts) =>
          LET e == last_step'.def.types
              vs == EnumVariants(e)
              named == {i \in DOMAIN vs : vs[i].name # NoName}
              before == result.per_module[order[mod_idx]]
              after == result'.per_module[order[mod_idx]]
          IN /\ DOMAIN after = DOMAIN before \cup {vs[i].name : i \in named}
             /\ \A i \in named :
                   MergedInto(before, after, vs[i].name, PerNsBoth(vs[i].def, e), imp_idx)
             /\ \A n \in DOMAIN before \ {vs[i].name : i \in named} :
                   after[n] = before[n]]_vars

\* `use crate::b::E::*` has just given its module the variant X in both
\* slots, tagged with the glob import.
EnumVariantImported ==
    /\ last_step.module # 0
    /\ last_step.def = PerNsTypes(TheEnum)
    /\ input[last_step.module].imports[last_step.import].is_glob
    /\ "X" \in DOMAIN result.per_module[last_step.module]
    /\ result.per_module[last_step.module]["X"] =
           Resolution(PerNsBoth(Def("EnumVariant", ThisCrate, 1), TheEnum),
                      last_step.import)

\* C15: for every non-glob import that reached its fixed point with
\* definition D, the returned ItemMap has under the import's visible name, in
\* the slots the import filled (those of D that were empty), the definitions
\* of D, and the entry's import field is the id of that import.
NamedImportEntryReturned ==
    returned.some =>
        \A p \in DOMAIN wrote :
            LET entry == returned.item_map.per_module[p[1]][
                             VisibleName(input[p[1]].imports[p[2]])]
            IN /\ \A ns \in wrote[p] : entry.def[ns] = fixed[p][ns]
               /\ wrote[p] # {} => entry.import = p[2]

\* resolve_imports: the module and the import of the resolve_import call that
\* is about to be made (pc = "imports").
CurrentModule == Module(ThisCrate, order[mod_idx])
CurrentImport == input[order[mod_idx]].imports[imp_idx]

\* The container in which segment i of the path is looked up: what the path
\* cut before segment i resolves to in the Types namespace.
ContainerOf(im, module, path, i) ==
    ResolvePathFp(im, module, Path(path.kind, SubSeq(path.segments, 1, i - 1))).def.types

\* Segment i of the path is looked up in an enum that has no such variant.
EnumMissAt(im, module, path, i) ==
    /\ i \in 1..Len(path.segments)
    /\ path.kind \in {"Crate", "Self", "Super"} \/ i > 1
    /\ ContainerOf(im, module, path, i).k = "Enum"
    /\ EnumVariant(ContainerOf(im, module, path, i), path.segments[i]) = None

\* C21: when a segment of the path is looked up in an enum and is not one of
\* its variants, resolve_path_fp returns the empty PerNs with fixed point
\* Yes, whether that segment is the last one or not.
EnumMissIsFinal ==
    pc = "imports" =>
        \A i \in 1..Len(CurrentImport.path.segments) :
            EnumMissAt(result, CurrentModule, CurrentImport.path, i) =>
                ResolvePathFp(result, CurrentModule, CurrentImport.path) =
                    FpResult(PerNsNone, Yes)

\* What the lookup of the last segment of the path gives when no segment
\* before it ended the resolution: the scope entry of a module of this
\* crate, or the variant of an enum (empty if there is none).
LastSegmentLookup(im, module, path) ==
    LET k == Len(path.segments)
        c == ContainerOf(im, module, path, k)
        variant == EnumVariant(c, path.segments[k])
    IN IF c.k = "Enum"
       THEN IF variant # None THEN PerNsBoth(variant, c) ELSE PerNsNone
       ELSE FromScope(im, c.id, path.segments[k])

\* C22: when every segment of the path is consumed, resolve_path_fp returns
\* what the last lookup gave together with fixed point Yes, also when that is
\* the empty PerNs: a one-segment Plain path gives the result of
\* resolve_name_in_module, a path from the crate root the entry of its last
\* segment in the module, or the variant in the enum, its other segments lead to.
ConsumedPathIsFinal ==
    pc = "imports" =>
        LET path == CurrentImport.path
            k == Len(path.segments)
            r == ResolvePathFp(result, CurrentModule, path)
            c == ContainerOf(result, CurrentModule, path, k)
        IN /\ (path.kind = "Plain" /\ k = 1) =>
                 r = FpResult(ResolveNameInModule(result, CurrentModule, path.segments[1]), Yes)
           /\ (/\ path.kind = "Crate" /\ k >= 1
               /\ \/ c.k = "Enum"
                  \/ /\ c.k = "Module" /\ c.krate = ThisCrate
                     /\ ~IsNone(FromScope(result, c.id, path.segments[k]))) =>
                 r = FpResult(LastSegmentLookup(result, CurrentModule, path), Yes)

\* `use bad;` with nothing named bad: the path resolved to the empty PerNs
\* as a fixed point, and the import is processed.
EmptyResultWasFinal ==
    /\ last_step.module # 0
    /\ input[last_step.module].imports[last_step.import].path = Path("Plain", <<"bad">>)
    /\ last_step.fp = Yes
    /\ last_step.def = PerNsNone
    /\ <<last_step.module, last_step.import>> \in processed_imports

\* The first segment the loop of resolve_path_fp looks up in a container.
FirstLoopSegment(path) == IF path.kind \in {"Plain", "Abs"} THEN 2 ELSE 1

\* The loop of resolve_path_fp gets to segment i: every segment before it
\* was found, in a module of this crate or as a variant of an enum.
LoopReaches(im, module, path, i) ==
    /\ i \in FirstLoopSegment(path)..Len(path.segments)
    /\ \A j \in FirstLoopSegment(path)..(i - 1) :
          LET c == ContainerOf(im, module, path, j)
          IN \/ c.k = "Enum" /\ EnumVariant(c, path.segments[j]) # None
             \/ /\ c.k = "Module" /\ c.krate = ThisCrate
                /\ ~IsNone(FromScope(im, c.id, path.segments[j]))

\* Segment i is looked up with nothing in the Types slot, or in a module of
\* this crate that has no entry, or only an empty one, for it.
SegmentPendingAt(im, module, path, i) ==
    /\ LoopReaches(im, module, path, i)
    /\ LET c == ContainerOf(im, module, path, i)
       IN \/ c = None
          \/ /\ c.k = "Module" /\ c.krate = ThisCrate
             /\ IsNone(FromScope(im, c.id, path.segments[i]))

\* No import is passed over while it is not in processed_imports: a sweep
\* goes through the modules one by one and attempts, in each, the
\* unprocessed imports one by one.
AttemptsEveryUnprocessedImport ==
    /\ (pc = "modules" /\ mod_idx <= Len(order)) =>
          /\ pc' = "imports" => mod_idx' = mod_idx
          /\ \A j \in ImportIds(order[mod_idx]) :
                (pc' = "modules" \/ j < imp_idx') =>
                    <<order[mod_idx], j>> \in processed_imports
    /\ pc = "imports" =>
          \A j \in ImportIds(order[mod_idx]) :
              (j > imp_idx /\ (pc' = "modules" \/ (pc' = "imports" /\ j < imp_idx'))) =>
                  <<order[mod_idx], j>> \in processed_imports'
    /\ (pc = "imports" /\ pc' = "modules") => mod_idx' = mod_idx + 1

\* C27: a segment looked up with an empty Types slot, or in a module of this
\* crate whose scope has no entry, or only an empty entry, for it, makes
\* resolve_path_fp return the empty PerNs with fixed point No; the import is
\* then not put in processed_imports, and no sweep passes over an import
\* that is not in processed_imports.
MissingSegmentLeavesImportPending ==
    [][/\ pc = "imports" =>
            LET path == CurrentImport.path
                missing == \E i \in 1..Len(path.segments) :
                               SegmentPendingAt(result, CurrentModule, path, i)
            IN missing =>
                 /\ ResolvePathFp(result, CurrentModule, path) = FpResult(PerNsNone, No)
                 /\ <<order[mod_idx], imp_idx>> \notin processed_imports'
       /\ AttemptsEveryUnprocessedImport]_vars

\* `use crate::a::Y;` attempted again in a later sweep, module a having only
\* the empty entry of its own unresolved import for Y.
PendingImportAttemptedAgain ==
    /\ last_step.module # 0
    /\ input[last_step.module].imports[last_step.import].path = Path("Crate", <<"a", "Y">>)
    /\ last_step.fp = No
    /\ iter >= 2
    /\ "Y" \in DOMAIN result.per_module[2]
    /\ <<last_step.module, last_step.import>> \notin processed_imports

\* C28: a segment looked up in a Types value that is neither a module nor
\* an enum makes resolve_path_fp return the empty PerNs with fixed point
\* Yes: the import is put in processed_imports and no scope changes.
NonContainerEndsImport ==
    [][pc = "imports" =>
         LET path == CurrentImport.path
             inside_item ==
                 \E i \in 1..Len(path.segments) :
                     /\ LoopReaches(result, CurrentModule, path, i)
                     /\ ContainerOf(result, CurrentModule, path, i) # None
                     /\ ContainerOf(result, CurrentModule, path, i).k \notin {"Module", "Enum"}
         IN inside_item =>
              /\ ResolvePathFp(result, CurrentModule, path) = FpResult(PerNsNone, Yes)
              /\ <<order[mod_idx], imp_idx>> \in processed_imports'
              /\ result'.per_module = result.per_module]_vars

\* `use crate::a::S::f;` was attempted: S is a struct, the import is processed.
ImportThroughStructProcessed ==
    /\ last_step.module # 0
    /\ input[last_step.module].imports[last_step.import].path = Path("Crate", <<"a", "S", "f">>)
    /\ last_step.fp = Yes
    /\ last_step.def = PerNsNone
    /\ <<last_step.module, last_step.import>> \in processed_imports

\* C25: the first segment of an Abs path is looked up in extern_prelude
\* only, whatever the scope of the importing module has under that name:
\* absent from extern_prelude the path resolves to the empty PerNs with fixed
\* point No, present the path resolves to the extern prelude's value, or
\* (the value a module of another crate) to what the rest of the path
\* names from that module.
AbsPathStartsInExternPrelude ==
    pc = "imports" =>
        LET path == CurrentImport.path
            k == Len(path.segments)
            r == ResolvePathFp(result, CurrentModule, path)
            t == result.extern_prelude[path.segments[1]]
        IN path.kind = "Abs" =>
             IF path.segments[1] \notin DOMAIN result.extern_prelude
             THEN r = FpResult(PerNsNone, No)
             ELSE IF k = 1 THEN r = FpResult(PerNsTypes(t), Yes)
             ELSE (t.k = "Module" /\ t.krate # ThisCrate) =>
                     r = FpResult(ResolvePath(DepItemMap, Module(t.krate, t.id),
                                      Path("Self", SubSeq(path.segments, 2, k))), Yes)

\* `use ::d::m::T;` in module b, which declares a struct d: the import got
\* the struct T of module m of the dependency d.
AbsPathPassedOverScopeEntry ==
    /\ last_step.module = 3
    /\ result.per_module[3]["d"].def.types = Def("Struct", ThisCrate, 4)
    /\ input[3].imports[last_step.import].path = Path("Abs", <<"d", "m", "T">>)
    /\ last_step.fp = Yes
    /\ last_step.def = PerNsTypes(Def("Struct", DepCrate, 2))

\* C26: a segment looked up in a module of another crate ends the loop of
\* resolve_path_fp: the result is what ItemMap::resolve_path of that crate's
\* ItemMap gives for the segments from that one on, from that module, with
\* fixed point Yes, also when it is the empty PerNs.
OtherCrateResolvesTheRest ==
    pc = "imports" =>
        LET path == CurrentImport.path
            k == Len(path.segments)
        IN \A i \in 1..k :
             LET c == ContainerOf(result, CurrentModule, path, i)
             IN (/\ LoopReaches(result, CurrentModule, path, i)
                 /\ c.k = "Module" /\ c.krate # ThisCrate) =>
                    ResolvePathFp(result, CurrentModule, path) =
                        FpResult(ResolvePath(DepItemMap, Module(c.krate, c.id),
                                     Path("Self", SubSeq(path.segments, i, k))), Yes)

\* `use x::nothing;` with x the dependency d: the dependency has no item
\* called nothing, and the import is processed with an empty result.
MissInOtherCrateWasFinal ==
    /\ last_step.module \in {2, 3}
    /\ input[last_step.module].imports[last_step.import].path = Path("Plain", <<"x", "nothing">>)
    /\ "x" \in DOMAIN result.extern_prelude
    /\ last_step.fp = Yes
    /\ last_step.def = PerNsNone
    /\ <<last_step.module, last_step.import>> \in processed_imports

\* C23: resolve_import of a non-glob import leaves in extern_prelude the
\* Types value of its path under its visible name exactly when the import is
\* an `extern crate` of the crate root whose path resolved with fixed point
\* Yes to a non-empty Types slot; every other import attempt leaves
\* extern_prelude as it was.
ExternCrateInRootExtendsPrelude ==
    [][pc = "imports" =>
         LET import == CurrentImport
             r == ResolvePathFp(result, CurrentModule, import.path)
             ep == result.extern_prelude
         IN IF /\ ~import.is_glob /\ import.is_extern_crate
               /\ order[mod_idx] = 1
               /\ r.fp = Yes /\ r.def.types # None
            THEN result'.extern_prelude =
                     [n \in DOMAIN ep \cup {VisibleName(import)} |->
                         IF n = VisibleName(import) THEN r.def.types ELSE ep[n]]
            ELSE result'.extern_prelude = ep]_vars

\* `extern crate d as x;` of the crate root was resolved: the extern prelude
\* has the root module of d under x.
RootExternCrateInPrelude ==
    /\ last_step.module = 1
    /\ input[1].imports[last_step.import].is_extern_crate
    /\ last_step.fp = Yes
    /\ "x" \in DOMAIN result.extern_prelude
    /\ result.extern_prelude["x"] = ModuleDefOf(DepCrate, 1)

\* C24: a glob import whose path resolves to a module of another crate
\* merges every entry of that module's scope in the other crate's ItemMap
\* into the importing module, the filled slots tagged with the id of the glob
\* import, leaves the other names of the importing module and glob_imports
\* as they were, and is put in processed_imports, so that it is not
\* attempted a second time.
GlobAcrossCratesCopiesOnce ==
    [][(/\ pc = "imports"
        /\ CurrentImport.is_glob
        /\ last_step'.fp = Yes
        /\ last_step'.def.types.k = "Module"
        /\ last_step'.def.types.krate # ThisCrate
        /\ pc' \notin Aborts) =>
          LET scope == DepItemMap.per_module[last_step'.def.types.id]
              before == result.per_module[order[mod_idx]]
              after == result'.per_module[order[mod_idx]]
          IN /\ DOMAIN after = DOMAIN before \cup DOMAIN scope
             /\ \A n \in DOMAIN scope : MergedInto(before, after, n, scope[n].def, imp_idx)
             /\ \A n \in DOMAIN before \ DOMAIN scope : after[n] = before[n]
             /\ glob_imports' = glob_imports
             /\ <<order[mod_idx], imp_idx>> \notin processed_imports
             /\ <<order[mod_idx], imp_idx>> \in processed_imports']_vars

\* `use d::*;` has just given its module the items m and S of the root
\* module of the dependency d, tagged with the glob import, and the glob index
\* has no entry for it.
ForeignScopeImported ==
    /\ last_step.module # 0
    /\ last_step.def = PerNsTypes(ModuleDefOf(DepCrate, 1))
    /\ input[last_step.module].imports[last_step.import].is_glob
    /\ {"m", "S"} \subseteq DOMAIN result.per_module[last_step.module]
    /\ result.per_module[last_step.module]["m"] =
           Resolution(PerNsTypes(ModuleDefOf(DepCrate, 2)), last_step.import)
    /\ \A t \in ModuleIds : \A j \in 1..Len(glob_imports[t]) :
           glob_imports[t][j] # <<last_step.module, last_step.import>>

\* C30: every sweep before the running one put at least one import in
\* processed_imports, so the number of sweeps is at most the number of
\* imports of the crate plus one, and the abort at the sweep cap is reached
\* only with at least as many imports as the cap.
SweepsBoundedByImports ==
    /\ iter <= Cardinality(Imports) + 1
    /\ pc \in {"modules", "imports"} => iter <= processed_imports_count + 1
    /\ processed_imports \subseteq Imports
    /\ pc = "panic_sweep_cap" => Cardinality(Imports) >= sweep_cap

\* The run was aborted at the sweep cap on a crate with exactly as many
\* imports as the cap, every one of them processed.
SweepCapReachedWithCapImports ==
    /\ pc = "panic_sweep_cap"
    /\ Cardinality(Imports) = sweep_cap
    /\ processed_imports = Imports

\* C29: when resolve has returned, every import that is not in
\* processed_imports resolves with fixed point No against the returned
\* ItemMap, and the last sweep left every module scope and extern_prelude as
\* they were at its head.
ReturnedMapIsFixedPoint ==
    (pc = "done" /\ returned.some) =>
        /\ returned.item_map = result
        /\ \A p \in Imports \ processed_imports :
              ResolvePathFp(returned.item_map, Module(ThisCrate, p[1]),
                            input[p[1]].imports[p[2]].path).fp = No
        /\ result.per_module = sweep_start.per_module
        /\ result.extern_prelude = sweep_start.extern_prelude

\* A run returned after several sweeps with an import still unprocessed.
ReturnedWithPendingImport ==
    /\ pc = "done"
    /\ returned.some
    /\ iter >= 2
    /\ Imports \ processed_imports # {}
    /\ processed_imports # {}

\* C31: in the calls of update_recursive one update makes, no module is
\* changed (its `changed` flag set) twice, every call below the first is made for an entry of
\* glob_imports of a module the call above it changed, and no call is deeper
\* than the crate has modules; when the depth cap aborts the run, the calls
\* changed one module at every depth up to the cap, a chain of glob imports
\* of more modules than the cap, and the last of them has a glob importer.
UpdateChangesEachModuleOnce ==
    LET trace == last_step.trace
    IN /\ \A i \in DOMAIN trace : \A j \in DOMAIN trace :
             (i < j /\ trace[i].changed /\ trace[j].changed) =>
                 trace[i].module # trace[j].module
       /\ \A i \in DOMAIN trace : trace[i].depth <= Cardinality(ModuleIds)
       /\ \A i \in DOMAIN trace :
             trace[i].depth > 0 =>
                 \E j \in 1..(i - 1) :
                     /\ trace[j].changed
                     /\ trace[j].depth = trace[i].depth - 1
                     /\ \E g \in DOMAIN glob_imports[trace[j].module] :
                           glob_imports[trace[j].module][g] =
                               <<trace[i].module, trace[i].import>>
       /\ pc = "panic_depth" =>
             /\ depth_cap < Cardinality(ModuleIds)
             /\ \A d \in 0..depth_cap :
                   \E i \in DOMAIN trace : trace[i].depth = d /\ trace[i].changed
             /\ \E i \in DOMAIN trace :
                   trace[i].depth = depth_cap /\ trace[i].changed /\ trace[i].importers > 0

\* Under the depth cap of the source an update went round a ring of glob
\* imports: a call at depth 2 found the first module unchanged.
UpdateWentRoundRing ==
    /\ depth_cap = DepthCap
    /\ \E i \in DOMAIN last_step.trace :
          /\ last_step.trace[i].depth = 2
          /\ ~last_step.trace[i].changed
          /\ last_step.trace[i].module = last_step.trace[1].module

\* C32: an update whose batch fills no slot of the target module (the first
\* call of update_recursive leaves `changed` unset) leaves the ItemMap as it
\* was: every module scope has the keys and the entries it had.
UpdateWithoutFillChangesNothing ==
    [][(/\ pc = "imports"
        /\ pc' \notin Aborts
        /\ last_step'.trace # <<>>
        /\ ~last_step'.trace[1].changed) =>
          result'.per_module = result.per_module]_vars

\* C33: an entry of a module scope that has a filled slot keeps its import
\* field through every import attempt; an entry seeded from a declaration or
\* a child module so keeps import = None.
ImportFieldOfFilledEntryKept ==
    [][pc = "imports" =>
         \A m \in ModuleIds : \A n \in DOMAIN result.per_module[m] :
             ~IsNone(result.per_module[m][n].def) =>
                 result'.per_module[m][n].import = result.per_module[m][n].import]_vars

\* C34: a name of extern_prelude keeps the definition it is bound to through
\* every import attempt.
ExternPreludeNeverRebound ==
    [][pc = "imports" =>
         \A n \in DOMAIN result.extern_prelude :
             /\ n \in DOMAIN result'.extern_prelude
             /\ result'.extern_prelude[n] = result.extern_prelude[n]]_vars

\* C37: a run ends with a returned ItemMap, by cancellation, at the sweep cap
\* or at the depth cap, and in no other way, also when a non-glob import has
\* a path without segments.
RunEndsOnlyAsSpecified ==
    /\ pc \in Aborts => pc \in {"canceled", "panic_sweep_cap", "panic_depth"}
    /\ pc \in {"start", "populate_imports", "populate_declarations", "populate_modules",
               "loop", "modules", "imports", "done"} \cup Aborts

\* The modules reached from those of set S along at most n entries of the
\* glob index: the glob importers, their glob importers, and so on.
RECURSIVE GlobReachable(_, _, _)
GlobReachable(globs, S, n) ==
    IF n = 0 THEN S
    ELSE GlobReachable(globs,
             S \cup UNION {{globs[t][j][1] : j \in DOMAIN globs[t]} : t \in S}, n - 1)

\* C35: the update an import attempt makes changes no scope but that of the
\* importing module and those of the modules reached from it along entries of
\* glob_imports; glob_imports, extern_prelude and processed_imports change
\* only by what resolve_import and resolve_imports do themselves for the
\* attempted import: the registration of the glob import, the insert of
\* the visible name of an `extern crate`, the insert of the pair.
UpdateTouchesOnlyGlobImporters ==
    [][(pc = "imports" /\ pc' \notin Aborts) =>
         LET M == order[mod_idx]
             import == CurrentImport
         IN /\ \A m \in ModuleIds :
                  result'.per_module[m] # result.per_module[m] =>
                      m \in GlobReachable(glob_imports, {M}, Cardinality(ModuleIds))
            /\ \A t \in ModuleIds :
                  \/ glob_imports'[t] = glob_imports[t]
                  \/ import.is_glob /\ glob_imports'[t] = Append(glob_imports[t], <<M, imp_idx>>)
            /\ \A n \in DOMAIN result'.extern_prelude :
                  \/ /\ n \in DOMAIN result.extern_prelude
                     /\ result'.extern_prelude[n] = result.extern_prelude[n]
                  \/ import.is_extern_crate /\ n = VisibleName(import)
            /\ processed_imports \subseteq processed_imports'
            /\ processed_imports' \subseteq processed_imports \cup {<<M, imp_idx>>}]_vars

\* An update changed the importing module and, one call down, a glob
\* importer of it, and left the third module alone.
UpdateReachedGlobImporter ==
    /\ pc \in {"modules", "imports"}
    /\ Len(last_step.trace) >= 2
    /\ last_step.trace[1].changed
    /\ last_step.trace[2].changed
    /\ last_step.trace[2].module # last_step.trace[1].module
    /\ \E m \in ModuleIds :
          m \notin GlobReachable(glob_imports, {last_step.module}, Cardinality(ModuleIds))

\* C36: the import resolve_imports attempts has not gone through the merge
\* step of resolve_import before (no earlier attempt of it reached a fixed
\* point), and no (importing module, import) pair is in glob_imports twice,
\* under one module or under two.
ImportMergedAtMostOnce ==
    /\ pc = "imports" => <<order[mod_idx], imp_idx>> \notin DOMAIN fixed
    /\ \A t1 \in ModuleIds : \A t2 \in ModuleIds :
          \A j1 \in DOMAIN glob_imports[t1] : \A j2 \in DOMAIN glob_imports[t2] :
              glob_imports[t1][j1] = glob_imports[t2][j2] => (t1 = t2 /\ j1 = j2)

\* A later sweep attempts an import while a glob import, merged and
\* registered in an earlier sweep, is passed over.
LaterSweepPassesOverGlob ==
    /\ pc = "imports"
    /\ iter >= 2
    /\ \E p \in processed_imports :
          /\ input[p[1]].imports[p[2]].is_glob
          /\ \E t \in ModuleIds : \E j \in DOMAIN glob_imports[t] : glob_imports[t][j] = p

====
